---- MODULE Spec2Model ----
(***************************************************************************)
(* A model of preview_builder.py: the batch driver main(), the per-device  *)
(* job PreviewBuilder.process_video (probes, loop planning, the ffmpeg     *)
(* invocation) and the screenshot sampler _capture_screenshots.            *)
(*                                                                         *)
(* Durations are exact rationals [num, den] (frame_count / fps for a       *)
(* video, milliseconds / 1000 for an audio file); the floating point       *)
(* rounding of Python's division is not modelled.                          *)
(***************************************************************************)
EXTENDS Integers, Sequences, FiniteSets, TLC

\* ------------------------------------------------------------------ bounds
MaxRuns   == 2     \* consecutive invocations of main on one output directory
MaxFrames == 121   \* largest total frame count of the sampling specification
MaxCount  == 7     \* largest screenshot count of the sampling specification
MaxTarget == 31    \* largest target duration of the planning specification
MaxNum    == 12    \* largest numerator of a source duration (planning)
MaxDen    == 3     \* largest denominator of a source duration (planning)

\* ------------------------------------------------------- program constants
required_duration == 30
screenshot_count  == 6
supported_video_extensions == {".mov", ".m4v", ".mp4"}
supported_audio_extensions == {".mp3", ".wav", ".aac"}

Devices == {"iphone", "ipad"}

\* ------------------------------------------------------------ environment
\* The command-line paths main can be given, and what the file system and
\* os.path say about them.
Paths == {"iphone.mov", "ipad.MP4", "music.mp3", "notes.txt", "gone.mov"}

os_path_exists(p) == p # "gone.mov"

splitext(p) ==
  CASE p = "iphone.mov" -> ".mov"
    [] p = "ipad.MP4"   -> ".MP4"
    [] p = "music.mp3"  -> ".mp3"
    [] p = "notes.txt"  -> ".txt"
    [] p = "gone.mov"   -> ".mov"

lower(e) == IF e = ".MP4" THEN ".mp4" ELSE e

\* What the decoding library reports for a video file (fps, frame count).
VideoProps == { [fps |-> 24, frames |-> 120], [fps |-> 30, frames |-> 100],
                [fps |-> 30, frames |-> 0],   [fps |-> 0,  frames |-> 0] }

\* What ffprobe reports for the audio file: a duration in milliseconds, or
\* output that json.loads / the ['format']['duration'] lookup rejects.
AudioProps == { [ok |-> TRUE, ms |-> 3000],  [ok |-> TRUE, ms |-> 45000],
                [ok |-> TRUE, ms |-> 0],     [ok |-> TRUE, ms |-> 0 - 3000],
                [ok |-> FALSE, ms |-> 0] }

VARIABLES
  args,             \* argparse result: [iphone, ipad, audio] paths
  env,              \* the media behind the inputs and the transcoder's verdict
  cfg,              \* self.required_duration, self.screenshot_count
  run,              \* which invocation of main this is
  pc,               \* position of main / process_video / _capture_screenshots
  vi,               \* index of the validation loop of main
  device,           \* device_type of the current process_video call
  dirs,             \* directories that exist under the output location
  fs,               \* output files: name -> run that last wrote it
  prev,             \* file names and exit code left by the previous run
  log,              \* probes, transcoder and sampler steps of this run
  video_duration,   \* locals of process_video
  audio_duration,
  video_loops,
  audio_loops,
  frame_positions,  \* locals of _capture_screenshots
  pos_i,            \* index of the for loop over frame_positions
  captured,         \* the local screenshot_count
  failed,           \* sampled positions whose cap.read() returned no frame
  written,          \* files written by the current sampler pass
  warned,           \* devices whose pass printed the shortfall warning
  error,            \* the exception that ended main, if any
  exit_code         \* the value handed to exit()

vars == << args, env, cfg, run, pc, vi, device, dirs, fs, prev, log,
           video_duration, audio_duration, video_loops, audio_loops,
           frame_positions, pos_i, captured, failed, written, warned,
           error,
           exit_code >>

drv   == << args, env, cfg, run >>
plan  == << video_duration, audio_duration, video_loops, audio_loops >>
samp  == << frame_positions, pos_i, captured, failed, written >>

NoDuration == [num |-> 0, den |-> 1]
NoFiles    == [n \in {} |-> 0]
NoPrev     == [names |-> {}, exit_code |-> 0 - 1]

\* ------------------------------------------------------------ file names
preview(d)       == << d, "preview.mp4" >>
screenshot(d, n) == << d, "screenshot", n >>
shots_dir(d)     == << d, "screenshots" >>
output_dir       == << "output" >>

write(f, name, r) == [x \in (DOMAIN f) \cup {name} |-> IF x = name THEN r ELSE f[x]]

\* ------------------------------------------------------------ arithmetic
floor_div(a, b) == IF b > 0 THEN a \div b ELSE (0 - a) \div (0 - b)
ceil_div(a, b)  == 0 - floor_div(0 - a, b)
max(a, b)       == IF a >= b THEN a ELSE b

\* max(1, int(np.ceil(self.required_duration / duration)))
loop_count_floor(target, d) == max(1, floor_div(target * d.den, d.num))
loop_count(target, d) == max(1, ceil_div(target * d.den, d.num))


\* np.linspace(start, stop, num, dtype=int): num samples start + i * step
\* with step = (stop - start) / (num - 1), the last sample set to stop, each
\* floored and converted to int.  Samples are exact rationals here.
round_half_even(a, b) ==
  LET q == a \div b
      r == a % b
  IN  IF 2 * r < b THEN q
      ELSE IF 2 * r > b THEN q + 1
      ELSE IF q % 2 = 0 THEN q ELSE q + 1

linspace_round(start, stop, num) ==
  [k \in 1..num |->
     IF num > 1 /\ k = num THEN stop
     ELSE IF num > 1 THEN start + round_half_even((k - 1) * (stop - start), num - 1)
     ELSE start]

linspace_open(start, stop, num) ==
  [k \in 1..num |-> start + floor_div((k - 1) * (stop - start), num)]

linspace(start, stop, num) ==
  [k \in 1..num |->
     IF num > 1 /\ k = num THEN stop
     ELSE IF num > 1 THEN start + floor_div((k - 1) * (stop - start), num - 1)
     ELSE start]

\* ------------------------------------------------------------------ main
input_files(a) == << a.iphone, a.ipad, a.audio >>

\* One iteration of the validation loop of main for input_file.
check_input_no_audio(a, input_file) ==
  IF ~ os_path_exists(input_file) THEN "not_found"
  ELSE IF input_file \in {a.iphone, a.ipad}
          /\ lower(splitext(input_file)) \notin supported_video_extensions
       THEN "bad_video_ext"
  ELSE "ok"

check_input(a, input_file) ==
  IF ~ os_path_exists(input_file) THEN "not_found"
  ELSE IF input_file \in {a.iphone, a.ipad}
          /\ lower(splitext(input_file)) \notin supported_video_extensions
       THEN "bad_video_ext"
  ELSE IF input_file = a.audio
          /\ lower(splitext(input_file)) \notin supported_audio_extensions
       THEN "bad_audio_ext"
  ELSE "ok"

\* The order in which main calls process_video.
device_order_swapped == << "ipad", "iphone" >>
device_order == << "iphone", "ipad" >>

\* Path.mkdir(exist_ok=...) on a directory that may already exist.
exist_ok_false == FALSE
exist_ok == TRUE

\* An uncaught exception leaves main; the interpreter exits with status 1.
raise(e) == pc' = "done" /\ error' = e /\ exit_code' = 1

\* Path.mkdir raises FileExistsError on an existing directory unless
\* exist_ok is set.
mkdir_raises(ds, d) == d \in ds /\ ~ exist_ok

ValidateInput ==
  /\ pc = "validate"
  /\ LET input_file == input_files(args)[vi] IN
       IF check_input(args, input_file) # "ok"
       THEN pc' = "done" /\ exit_code' = 1 /\ vi' = vi
       ELSE /\ exit_code' = exit_code
            /\ IF vi < 3 THEN vi' = vi + 1 /\ pc' = pc
                         ELSE vi' = vi /\ pc' = "construct"
  /\ UNCHANGED << drv, device, dirs, fs, prev, log, plan, samp, warned, error >>

\* PreviewBuilder.__init__, then main's first call of process_video.
Construct ==
  /\ pc = "construct"
  /\ cfg' = [required_duration |-> required_duration,
             screenshot_count  |-> screenshot_count]
  /\ IF mkdir_raises(dirs, output_dir)
     THEN raise("FileExistsError") /\ UNCHANGED << dirs, device >>
     ELSE /\ dirs' = dirs \cup {output_dir}
          /\ device' = device_order[1]
          /\ pc' = "mkdir"
          /\ UNCHANGED << error, exit_code >>
  /\ UNCHANGED << args, env, run, vi, fs, prev, log, plan, samp, warned >>

\* --------------------------------------------------------- process_video
\* screenshots_dir.mkdir(exist_ok=True)
MakeScreenshotsDir ==
  /\ pc = "mkdir"
  /\ IF mkdir_raises(dirs, shots_dir(device))
     THEN raise("FileExistsError") /\ UNCHANGED dirs
     ELSE /\ dirs' = dirs \cup {shots_dir(device)}
          /\ pc' = "probe_video"
          /\ UNCHANGED << error, exit_code >>
  /\ UNCHANGED << drv, vi, device, fs, prev, log, plan, samp, warned >>

\* _get_video_duration: frame_count / fps; a zero fps raises
\* ZeroDivisionError.
GetVideoDuration ==
  /\ pc = "probe_video"
  /\ log' = Append(log, << "video_probe", device >>)
  /\ LET v == env.video[device] IN
       IF v.fps = 0
       THEN raise("ZeroDivisionError") /\ UNCHANGED video_duration
       ELSE /\ video_duration' = [num |-> v.frames, den |-> v.fps]
            /\ pc' = "probe_audio"
            /\ UNCHANGED << error, exit_code >>
  /\ UNCHANGED << drv, vi, device, dirs, fs, prev, audio_duration,
                  video_loops, audio_loops, samp, warned >>

\* _get_audio_duration: run ffprobe, parse its JSON report.
GetAudioDuration ==
  /\ pc = "probe_audio"
  /\ log' = Append(log, << "ffprobe", device >>)
  /\ IF ~ env.audio.ok
     THEN raise("JSONDecodeError") /\ UNCHANGED audio_duration
     ELSE /\ audio_duration' = [num |-> env.audio.ms, den |-> 1000]
          /\ pc' = "plan"
          /\ UNCHANGED << error, exit_code >>
  /\ UNCHANGED << drv, vi, device, dirs, fs, prev, video_duration,
                  video_loops, audio_loops, samp, warned >>

\* video_loops / audio_loops; dividing by a zero duration raises
\* ZeroDivisionError.
PlanLoops ==
  /\ pc = "plan"
  /\ IF video_duration.num = 0 \/ audio_duration.num = 0
     THEN raise("ZeroDivisionError") /\ UNCHANGED << video_loops, audio_loops >>
     ELSE /\ video_loops' = loop_count(cfg.required_duration, video_duration)
          /\ audio_loops' = loop_count(cfg.required_duration, audio_duration)
          /\ pc' = "encode"
          /\ UNCHANGED << error, exit_code >>
  /\ UNCHANGED << drv, vi, device, dirs, fs, prev, log, video_duration,
                  audio_duration, samp, warned >>

\* subprocess.run(ffmpeg_cmd, check=True): a non-zero exit raises
\* CalledProcessError; a failed transcoder may or may not leave a file.
Encode ==
  /\ pc = "encode"
  /\ IF env.ffmpeg_ok[device]
     THEN /\ log' = log \o << << "ffmpeg", device >>, << "ffmpeg_ok", device >> >>
          /\ fs' = write(fs, preview(device), run)
          /\ pc' = "capture_open"
          /\ UNCHANGED << error, exit_code >>
     ELSE /\ log' = Append(log, << "ffmpeg", device >>)
          /\ \E partial \in BOOLEAN :
               fs' = IF partial THEN write(fs, preview(device), run) ELSE fs
          /\ raise("CalledProcessError")
  /\ UNCHANGED << drv, vi, device, dirs, prev, plan, samp, warned >>

\* -------------------------------------------------- _capture_screenshots
\* The number in the file name of a capture: the local count plus one.
shot_number_by_position(cap, i) == i
shot_number(cap, i) == cap + 1

\* The loop index after a position whose read failed: the for loop goes on.
after_failure_break(i, n) == n + 1
after_failure(i, n) == i + 1

\* if screenshot_count != self.screenshot_count
shortfall_never(cap, n) == FALSE
shortfall(cap, n) == cap # n

CaptureOpen ==
  /\ pc = "capture_open"
  /\ log' = Append(log, << "sample", device >>)
  /\ LET total_frames == env.video[device].frames IN
       frame_positions' = linspace(0, total_frames - 1, cfg.screenshot_count)
  /\ pos_i' = 1
  /\ captured' = 0
  /\ failed' = 0
  /\ written' = {}
  /\ pc' = "capture_loop"
  /\ UNCHANGED << drv, vi, device, dirs, fs, prev, plan, warned, error,
                  exit_code >>

\* One iteration of the loop: seek, read, and on success resize and write.
CaptureFrame ==
  /\ pc = "capture_loop"
  /\ pos_i <= Len(frame_positions)
  /\ \E ret \in BOOLEAN :
       IF ret
       THEN LET f == screenshot(device, shot_number(captured, pos_i)) IN
              /\ fs' = write(fs, f, run)
              /\ written' = written \cup {f}
              /\ captured' = captured + 1
              /\ pos_i' = pos_i + 1
              /\ failed' = failed
       ELSE /\ failed' = failed + 1
            /\ pos_i' = after_failure(pos_i, Len(frame_positions))
            /\ UNCHANGED << fs, written, captured >>
  /\ UNCHANGED << drv, pc, vi, device, dirs, prev, log, plan, frame_positions,
                  warned, error, exit_code >>

\* cap.release(), the shortfall warning, and the return to main.
CaptureClose ==
  /\ pc = "capture_loop"
  /\ pos_i > Len(frame_positions)
  /\ warned' = IF shortfall(captured, cfg.screenshot_count)
               THEN warned \cup {device} ELSE warned
  /\ log' = Append(log, << "sample_done", device >>)
  /\ pc' = "returned"
  /\ UNCHANGED << drv, vi, device, dirs, fs, prev, plan, samp, error,
                  exit_code >>

\* ------------------------------------------------------- main, continued
\* The first process_video call returned: main makes the second call.
NextJob ==
  /\ pc = "returned"
  /\ device = device_order[1]
  /\ device' = device_order[2]
  /\ pc' = "mkdir"
  /\ UNCHANGED << drv, vi, dirs, fs, prev, log, plan, samp, warned, error,
                  exit_code >>

\* The second call returned: "All processing completed", return 0.
Finish ==
  /\ pc = "returned"
  /\ device = device_order[2]
  /\ exit_code' = 0
  /\ pc' = "done"
  /\ UNCHANGED << drv, vi, device, dirs, fs, prev, log, plan, samp, warned,
                  error >>

\* The tool is invoked again with the same arguments and output directory.
Rerun ==
  /\ pc = "done"
  /\ run < MaxRuns
  /\ run' = run + 1
  /\ prev' = [names |-> DOMAIN fs, exit_code |-> exit_code]
  /\ pc' = "validate"
  /\ vi' = 1
  /\ device' = device_order[1]
  /\ log' = << >>
  /\ video_duration' = NoDuration
  /\ audio_duration' = NoDuration
  /\ video_loops' = 0
  /\ audio_loops' = 0
  /\ frame_positions' = << >>
  /\ pos_i' = 1
  /\ captured' = 0
  /\ failed' = 0
  /\ written' = {}
  /\ warned' = {}
  /\ error' = "none"
  /\ exit_code' = 0 - 1
  /\ UNCHANGED << args, env, cfg, dirs, fs >>

\* --------------------------------------------------------- specifications
Locals ==
  /\ vi = 1
  /\ video_duration = NoDuration
  /\ audio_duration = NoDuration
  /\ video_loops = 0
  /\ audio_loops = 0
  /\ frame_positions = << >>
  /\ pos_i = 1
  /\ captured = 0
  /\ failed = 0
  /\ written = {}
  /\ warned = {}
  /\ error = "none"
  /\ exit_code = 0 - 1

\* A first invocation of main on an empty output location.  Two arguments
\* naming the same file name the same media.
Init ==
  /\ args \in [iphone : Paths, ipad : Paths, audio : Paths]
  /\ env \in [video : [Devices -> VideoProps], audio : AudioProps,
              ffmpeg_ok : [Devices -> BOOLEAN]]
  /\ args.iphone = args.ipad => env.video["iphone"] = env.video["ipad"]
  /\ cfg = [required_duration |-> required_duration,
            screenshot_count  |-> screenshot_count]
  /\ run = 1
  /\ pc = "validate"
  /\ device = device_order[1]
  /\ dirs = {}
  /\ fs = NoFiles
  /\ prev = NoPrev
  /\ log = << >>
  /\ Locals

Next ==
  \/ ValidateInput
  \/ Construct
  \/ MakeScreenshotsDir
  \/ GetVideoDuration
  \/ GetAudioDuration
  \/ PlanLoops
  \/ Encode
  \/ CaptureOpen
  \/ CaptureFrame
  \/ CaptureClose
  \/ NextJob
  \/ Finish
  \/ Rerun

Spec == Init /\ [][Next]_vars

\* Loop planning alone: process_video about to compute the loop counts, for
\* any target duration and any positive durations the probes can return.
InitPlan ==
  /\ args = [iphone |-> "iphone.mov", ipad |-> "ipad.MP4", audio |-> "music.mp3"]
  /\ \E t \in 1..MaxTarget, n \in 1..MaxNum, d \in 1..MaxDen, h \in 1..(2 * MaxNum) :
       /\ cfg = [required_duration |-> t, screenshot_count |-> screenshot_count]
       /\ env = [video |-> [x \in Devices |-> [fps |-> d, frames |-> n]],
                 audio |-> [ok |-> TRUE, ms |-> 500 * h],
                 ffmpeg_ok |-> [x \in Devices |-> TRUE]]
       /\ video_duration = [num |-> n, den |-> d]
       /\ audio_duration = [num |-> 500 * h, den |-> 1000]
  /\ run = 1
  /\ pc = "plan"
  /\ device = device_order[1]
  /\ dirs = {output_dir, shots_dir(device_order[1])}
  /\ fs = NoFiles
  /\ prev = NoPrev
  /\ log = << << "video_probe", device_order[1] >>, << "ffprobe", device_order[1] >> >>
  /\ vi = 3
  /\ video_loops = 0
  /\ audio_loops = 0
  /\ frame_positions = << >>
  /\ pos_i = 1
  /\ captured = 0
  /\ failed = 0
  /\ written = {}
  /\ warned = {}
  /\ error = "none"
  /\ exit_code = 0 - 1

NextPlan == PlanLoops

SpecPlan == InitPlan /\ [][NextPlan]_vars

\* Frame sampling alone: _capture_screenshots entered for a video of any
\* frame count >= 1 and any configured screenshot count.
InitSample ==
  /\ args = [iphone |-> "iphone.mov", ipad |-> "ipad.MP4", audio |-> "music.mp3"]
  /\ \E tf \in 1..MaxFrames, n \in 1..MaxCount :
       /\ cfg = [required_duration |-> required_duration, screenshot_count |-> n]
       /\ env = [video |-> [x \in Devices |-> [fps |-> 24, frames |-> tf]],
                 audio |-> [ok |-> TRUE, ms |-> 3000],
                 ffmpeg_ok |-> [x \in Devices |-> TRUE]]
       /\ video_duration = [num |-> tf, den |-> 24]
       /\ video_loops = loop_count(required_duration, [num |-> tf, den |-> 24])
  /\ audio_duration = [num |-> 3000, den |-> 1000]
  /\ audio_loops = 10
  /\ run = 1
  /\ pc = "capture_open"
  /\ device = device_order[1]
  /\ dirs = {output_dir, shots_dir(device_order[1])}
  /\ fs = write(NoFiles, preview(device_order[1]), 1)
  /\ prev = NoPrev
  /\ log = << << "video_probe", device_order[1] >>, << "ffprobe", device_order[1] >>,
              << "ffmpeg", device_order[1] >>, << "ffmpeg_ok", device_order[1] >> >>
  /\ vi = 3
  /\ frame_positions = << >>
  /\ pos_i = 1
  /\ captured = 0
  /\ failed = 0
  /\ written = {}
  /\ warned = {}
  /\ error = "none"
  /\ exit_code = 0 - 1

NextSample == CaptureOpen

SpecSample == InitSample /\ [][NextSample]_vars

\* ------------------------------------------------------------ properties
Range(q)       == { q[k] : k \in 1..Len(q) }
IsPrefix(p, q) == Len(p) <= Len(q) /\ \A k \in 1..Len(p) : p[k] = q[k]

\* C1: for positive target and source durations the loop count is at least
\* 1, loop_count * source_duration >= target_duration, and it is the least
\* such count, i.e. max(1, ceil(target / source)); target 30 with a 5 s video
\* and a 3 s audio gives 6 and 10.
LeastCover(l, t, d) ==
  /\ l >= 1
  /\ l * d.num >= t * d.den
  /\ l > 1 => (l - 1) * d.num < t * d.den

C1_LoopCount ==
  pc = "encode" =>
    /\ LeastCover(video_loops, cfg.required_duration, video_duration)
    /\ LeastCover(audio_loops, cfg.required_duration, audio_duration)
    /\ (/\ cfg.required_duration = 30
        /\ video_duration.num = 5 * video_duration.den
        /\ audio_duration.num = 3 * audio_duration.den)
       => (video_loops = 6 /\ audio_loops = 10)

C1_Witness ==
  /\ pc = "encode"
  /\ cfg.required_duration = 30
  /\ video_duration = [num |-> 10, den |-> 2]
  /\ audio_duration = [num |-> 3000, den |-> 1000]
  /\ video_loops = 6
  /\ audio_loops = 10

SampleN  == cfg.screenshot_count
SampleTF == env.video[device].frames
Sampled  == pc = "capture_loop" /\ pos_i = 1 /\ captured = 0 /\ failed = 0

\* C2 as stated: the i-th sampled index is round(i * (total_frames - 1) /
\* (N - 1)) for N >= 2, and 0 for N = 1.
C2_Rounded ==
  Sampled =>
    \A k \in 1..Len(frame_positions) :
      frame_positions[k] =
        IF SampleN = 1 THEN 0
        ELSE round_half_even((k - 1) * (SampleTF - 1), SampleN - 1)

\* C2 amended: the i-th sampled index is floor(i * (total_frames - 1) /
\* (N - 1)) for N >= 2, i.e. the integer p with
\* p * (N - 1) <= i * (total_frames - 1) < (p + 1) * (N - 1); 0 for N = 1.
C2_Floored ==
  Sampled =>
    /\ Len(frame_positions) = SampleN
    /\ \A k \in 1..Len(frame_positions) :
         LET p == frame_positions[k] IN
           IF SampleN = 1 THEN p = 0
           ELSE /\ p * (SampleN - 1) <= (k - 1) * (SampleTF - 1)
                /\ (k - 1) * (SampleTF - 1) < (p + 1) * (SampleN - 1)

C2_Witness ==
  /\ Sampled
  /\ SampleTF = 100
  /\ SampleN = 6
  /\ frame_positions[2] = 19
  /\ frame_positions[3] = 39

\* C3: the sampled positions are exactly screenshot_count indices, non-
\* decreasing, within [0, total_frames - 1], starting at 0 and (N >= 2)
\* ending at total_frames - 1; 100 frames give [0,19,39,59,79,99] and 120
\* frames give [0,23,47,71,95,119] for N = 6.
C3_Positions ==
  Sampled =>
    /\ Len(frame_positions) = SampleN
    /\ \A k \in 1..SampleN : frame_positions[k] \in 0..(SampleTF - 1)
    /\ \A k \in 1..(SampleN - 1) : frame_positions[k] <= frame_positions[k + 1]
    /\ frame_positions[1] = 0
    /\ SampleN >= 2 => frame_positions[SampleN] = SampleTF - 1
    /\ (SampleTF = 100 /\ SampleN = 6) => frame_positions = << 0, 19, 39, 59, 79, 99 >>
    /\ (SampleTF = 120 /\ SampleN = 6) => frame_positions = << 0, 23, 47, 71, 95, 119 >>

C3_Witness ==
  /\ Sampled
  /\ SampleTF = 120
  /\ frame_positions = << 0, 23, 47, 71, 95, 119 >>

\* What the command line is when some input fails main's checks: a path that
\* does not exist, a video outside .mov/.m4v/.mp4, an audio outside
\* .mp3/.wav/.aac (extensions compared in lower case).
VideoPathOk(p) == os_path_exists(p) /\ lower(splitext(p)) \in {".mov", ".m4v", ".mp4"}
AudioPathOk(p) == os_path_exists(p) /\ lower(splitext(p)) \in {".mp3", ".wav", ".aac"}
InvalidArgs ==
  ~ (VideoPathOk(args.iphone) /\ VideoPathOk(args.ipad) /\ AudioPathOk(args.audio))

\* C4 as stated: in every run of main that passes validation, process_video
\* is invoked for ipad whatever became of the iphone job.
C4_IpadAttempted ==
  (pc = "done" /\ ~ InvalidArgs) => << "video_probe", "ipad" >> \in Range(log)

\* C5: with any invalid input main returns 1 without an exception, and at no
\* point has the output directory or any file been created or any probe,
\* transcoder or decode been started.
C5_InvalidInputAborts ==
  InvalidArgs =>
    /\ pc \in {"validate", "done"}
    /\ dirs = {}
    /\ DOMAIN fs = {}
    /\ log = << >>
    /\ pc = "done" => (exit_code = 1 /\ error = "none")

C5_Witness ==
  /\ pc = "done"
  /\ exit_code = 1
  /\ VideoPathOk(args.iphone)
  /\ VideoPathOk(args.ipad)
  /\ args.audio = "notes.txt"
  /\ dirs = {}

\* C6 as stated: a job whose video has no frames or no frame rate, or whose
\* audio duration is <= 0, fails without spawning the audio probe or the
\* transcoder, and no transcoder invocation follows such a duration.
VideoNonPositive(d) == env.video[d].fps = 0 \/ env.video[d].frames <= 0
AudioNonPositive    == env.audio.ok /\ env.audio.ms <= 0

C6_NonPositiveRejected ==
  \A d \in Devices :
    /\ (<< "video_probe", d >> \in Range(log) /\ VideoNonPositive(d))
         => << "ffprobe", d >> \notin Range(log)
    /\ << "ffmpeg", d >> \in Range(log)
         => (~ VideoNonPositive(d) /\ ~ AudioNonPositive)
    /\ (pc = "done" /\ device = d /\ << "video_probe", d >> \in Range(log)
          /\ (VideoNonPositive(d) \/ AudioNonPositive))
         => exit_code = 1

\* C7: a failed decode is skipped and every remaining position is still
\* attempted; with a failure the pass captures fewer than requested and
\* warns, and it warns only then; the job returns without an exception, the
\* run exits 0, and the preview video written by the job stays as written.
C7_DegradedResult ==
  /\ pc \in {"capture_loop", "returned"} =>
       /\ error = "none"
       /\ preview(device) \in DOMAIN fs
       /\ fs[preview(device)] = run
  /\ pc = "returned" =>
       /\ captured + failed = cfg.screenshot_count
       /\ failed > 0 => (captured < cfg.screenshot_count /\ device \in warned)
       /\ device \in warned => failed > 0
  /\ (pc = "done" /\ << "sample_done", "ipad" >> \in Range(log)) =>
       (exit_code = 0 /\ error = "none")

C7_Witness ==
  /\ pc = "done"
  /\ exit_code = 0
  /\ warned = {"iphone"}
  /\ screenshot("iphone", 4) \in DOMAIN fs
  /\ screenshot("iphone", 5) \notin DOMAIN fs
  /\ fs[preview("iphone")] = run

\* C8: the steps of a run happen in one order: for iphone, then for ipad,
\* video probe, audio probe, one transcoder invocation, its success, the
\* sampler pass; main returns 0 only after all of them with valid inputs.
JobSteps(d) ==
  << << "video_probe", d >>, << "ffprobe", d >>, << "ffmpeg", d >>,
     << "ffmpeg_ok", d >>, << "sample", d >>, << "sample_done", d >> >>

C8_StepOrder ==
  /\ IsPrefix(log, JobSteps("iphone") \o JobSteps("ipad"))
  /\ pc \in {"capture_loop", "returned"} => << "ffmpeg_ok", device >> \in Range(log)
  /\ exit_code = 0 =>
       /\ ~ InvalidArgs
       /\ pc = "done"
       /\ log = JobSteps("iphone") \o JobSteps("ipad")

C8_Witness ==
  /\ pc = "done"
  /\ exit_code = 0
  /\ Len(log) = 12
  /\ log[6] = << "sample_done", "iphone" >>
  /\ log[7] = << "video_probe", "ipad" >>

\* The screenshots of device d among a set of file names, and those the
\* current run wrote.
ShotsIn(names, d) == { f \in names : Len(f) = 3 /\ f[1] = d }
ShotsNow(d)       == { f \in ShotsIn(DOMAIN fs, d) : fs[f] = run }
SecondRunDone     == pc = "done" /\ run >= 2 /\ prev.exit_code = 0

\* C9 as stated: a second run after a successful one succeeds and leaves
\* exactly the file set of the first, none of it stale, whichever frames
\* decode in either run.
C9_SameFileSet ==
  SecondRunDone =>
    /\ exit_code = 0
    /\ DOMAIN fs = prev.names
    /\ \A f \in DOMAIN fs : fs[f] = run

\* C9 amended: a second run after a successful one succeeds; it removes no
\* file and rewrites both previews; when it captures per device as many
\* screenshots as were present, the file set is unchanged and every file is
\* rewritten.
C9_Rerun ==
  SecondRunDone =>
    /\ exit_code = 0
    /\ error = "none"
    /\ prev.names \subseteq DOMAIN fs
    /\ \A d \in Devices : fs[preview(d)] = run
    /\ (\A d \in Devices :
          Cardinality(ShotsNow(d)) = Cardinality(ShotsIn(prev.names, d)))
       => (DOMAIN fs = prev.names /\ \A f \in DOMAIN fs : fs[f] = run)

C9_Witness ==
  /\ SecondRunDone
  /\ exit_code = 0
  /\ DOMAIN fs = prev.names
  /\ \A f \in DOMAIN fs : fs[f] = run
  /\ Cardinality(DOMAIN fs) = 2 + 2 * screenshot_count

\* C10: during and after a sampler pass the files it wrote are exactly
\* screenshot_1 .. screenshot_k, k the number of positions decoded so far;
\* with no failed decode the file number is the position's ordinal and the
\* pass ends with N files.
C10_Numbering ==
  pc \in {"capture_loop", "returned"} =>
    /\ written = { screenshot(device, k) : k \in 1..captured }
    /\ \A f \in written : f \in DOMAIN fs /\ fs[f] = run
    /\ captured = (pos_i - 1) - failed
    /\ (pc = "returned" /\ failed = 0) =>
         (captured = cfg.screenshot_count /\ Cardinality(written) = cfg.screenshot_count)

C10_Witness ==
  /\ pc = "returned"
  /\ failed = 2
  /\ captured = 4
  /\ written = { screenshot(device, k) : k \in 1..4 }

====
